---------------------------- MODULE Spec2Model ----------------------------
(***************************************************************************)
(* The four reporting commands of obsidiana's command line (_cli.py):      *)
(* validate_frontmatter, todo, tags and anki, run against a vault of       *)
(* notes.  Text (subpaths, tags, body lines) is modelled as sequences of   *)
(* one-character strings, so that substring search, exact tag membership   *)
(* and string ordering are computed rather than assumed.                   *)
(***************************************************************************)
EXTENDS Integers, Sequences, FiniteSets, TLC

\* ------------------------------------------------------------------ bounds

MaxNotes == 2

\* -------------------------------------------------------------------- text

\* Code points of the characters the model's texts are written with.
Ord(c) ==
    CASE c = " " -> 32 [] c = "#" -> 35 [] c = "." -> 46 [] c = "/" -> 47
      [] c = "B" -> 66
      [] c = "a" -> 97 [] c = "b" -> 98 [] c = "d" -> 100 [] c = "e" -> 101
      [] c = "i" -> 105 [] c = "k" -> 107 [] c = "l" -> 108 [] c = "m" -> 109
      [] c = "n" -> 110 [] c = "o" -> 111 [] c = "r" -> 114 [] c = "t" -> 116
      [] c = "w" -> 119 [] c = "x" -> 120

\* [A-Za-z0-9_]
IsWordChar(c) ==
    LET o == Ord(c)
    IN  \/ (48 <= o /\ o <= 57)
        \/ (65 <= o /\ o <= 90)
        \/ (97 <= o /\ o <= 122)
        \/ o = 95

\* [A-Za-z0-9_/-]
IsTagChar(c) == IsWordChar(c) \/ Ord(c) = 47 \/ Ord(c) = 45

\* Python's ordering of str: by code point, a proper prefix sorts first.
RECURSIVE LexLess(_, _)
LexLess(s, t) ==
    IF s = <<>> THEN t # <<>>
    ELSE IF t = <<>> THEN FALSE
    ELSE IF Ord(Head(s)) # Ord(Head(t)) THEN Ord(Head(s)) < Ord(Head(t))
    ELSE LexLess(Tail(s), Tail(t))

\* s.startswith(sub)
StartsWith(sub, s) == Len(sub) <= Len(s) /\ SubSeq(s, 1, Len(sub)) = sub

\* Python's `sub in line` on str: sub occurs at some position of line.
RECURSIVE Contains(_, _)
Contains(sub, line) ==
    IF Len(line) < Len(sub) THEN FALSE
    ELSE IF StartsWith(sub, line) THEN TRUE
    ELSE Contains(sub, Tail(line))

Range(s) == {s[i] : i \in 1..Len(s)}

\* Every order in which a finite set can be iterated.
RECURSIVE Enumerations(_)
Enumerations(S) ==
    IF S = {} THEN {<<>>}
    ELSE UNION {{<<x>> \o s : s \in Enumerations(S \ {x})} : x \in S}

\* The string literals of _cli.py.
TODO == <<"t", "o", "d", "o">>
TODO_NOW == <<"t", "o", "d", "o", "/", "n", "o", "w">>
LEARN_ANKI == <<"l", "e", "a", "r", "n", "/", "a", "n", "k", "i">>
HASH_TODO == <<"#", "t", "o", "d", "o">>

\* A tag no command names.
TODO_LATER == <<"t", "o", "d", "o", "/", "l", "a", "t", "e", "r">>


\* ------------------------------------------------------- the vault's notes

\* Note.subpath(): the path of a note relative to the vault's root.
Subpaths ==
    { <<"a", "/", "x", ".", "m", "d">>,
      <<"b", "/", "x", ".", "m", "d">>,
      <<"B", ".", "m", "d">> }

\* Lines of text a note may hold.
LineTask == <<"d", "o", " ">> \o HASH_TODO
LineLater == <<"#">> \o TODO_LATER
LineNow == <<"#">> \o TODO_NOW \o <<" ", "x">>
LinePlain == TODO
LineAnki == <<"#">> \o LEARN_ANKI
LineAnchor == <<"x">> \o HASH_TODO

\* What a note file may hold: whether its frontmatter marks it as awaiting
\* triage, the errors the schema's validator yields on its frontmatter (in
\* the order iter_errors yields them), the text of the frontmatter block and
\* the body lines.
Contents ==
    { [triage |-> FALSE, errs |-> <<>>, fm |-> <<>>,
       lines |-> <<LineTask, LinePlain, LineLater>>],
      [triage |-> FALSE, errs |-> <<"enum", "anyOf">>, fm |-> <<LineNow>>,
       lines |-> <<LinePlain>>],
      [triage |-> TRUE, errs |-> <<"required">>, fm |-> <<>>,
       lines |-> <<LineLater>>],
      [triage |-> FALSE, errs |-> <<"type", "anyOf", "enum">>,
       fm |-> <<LineAnki>>, lines |-> <<LineAnchor>>],
      [triage |-> TRUE, errs |-> <<>>, fm |-> <<>>,
       lines |-> <<LineAnki, LineNow, LineTask>>],
      [triage |-> FALSE, errs |-> <<>>, fm |-> <<>>, lines |-> <<>>] }

\* What schema.json may be: absent, not JSON, JSON that fails its
\* meta-schema, or a valid schema.
SchemaDocs == {"missing", "malformed", "invalid", "valid"}

\* The vaults: a schema document and at most MaxNotes note files, each under
\* its own subpath.
Vaults ==
    { [schema |-> d, notes |-> f] :
        d \in SchemaDocs,
        f \in UNION { [S -> Contents] :
                        S \in {T \in SUBSET Subpaths : Cardinality(T) <= MaxNotes} } }

\* The first index of text, from i on, that holds no tag character.
RECURSIVE TagEnd(_, _)
TagEnd(text, i) ==
    IF i <= Len(text) /\ IsTagChar(text[i]) THEN TagEnd(text, i + 1) ELSE i

\* The hashtags of a text: a # not preceded by a word character and followed
\* by one or more tag characters; the tag is the token without its #.
RECURSIVE ScanTags(_, _)
ScanTags(text, i) ==
    IF i > Len(text) THEN {}
    ELSE IF /\ text[i] = "#"
            /\ (i = 1 \/ ~IsWordChar(text[i - 1]))
            /\ TagEnd(text, i + 1) > i + 1
         THEN {SubSeq(text, i + 1, TagEnd(text, i + 1) - 1)}
                \cup ScanTags(text, TagEnd(text, i + 1))
         ELSE ScanTags(text, i + 1)

\* Note.tags: the hashtags found anywhere in the note, frontmatter included.
Tags(note) ==
    UNION {ScanTags(l, 1) : l \in Range(note.fm) \cup Range(note.lines)}

\* Note.lines(): the body lines, in order.
Lines(note) == note.lines

\* Note.awaiting_triage()
AwaitingTriage(note) == note.triage

\* The note a vault holds under a subpath.
NoteAt(v, sp) == v.notes[sp]

\* jsonschema's relevance key: a greater key is a more relevant error
\* (best_match takes the max under it).
Relevance(e) ==
    CASE e = "anyOf" -> 1 [] e = "required" -> 2 [] e = "type" -> 3
      [] e = "enum" -> 3

\* validator.iter_errors(note.frontmatter)
IterErrors(note) == note.errs

\* ---------------------------------------------------- the commands' steps

\* sorted(errors, key=relevance): ascending in the key, and stable.
InsertByRelevance(s, e) ==
    LET k == Cardinality({i \in 1..Len(s) : Relevance(s[i]) <= Relevance(e)})
    IN  SubSeq(s, 1, k) \o <<e>> \o SubSeq(s, k + 1, Len(s))

RECURSIVE SortedByRelevance(_)
SortedByRelevance(errs) ==
    IF errs = <<>> THEN <<>>
    ELSE InsertByRelevance(SortedByRelevance(SubSeq(errs, 1, Len(errs) - 1)),
                           errs[Len(errs)])

\* A loader that leaves out check_schema.
LoadSchemaUnchecked(doc) ==
    CASE doc = "missing" -> "FileNotFoundError"
      [] doc = "malformed" -> "JSONDecodeError"
      [] OTHER -> "ok"

\* Lines 68-71: read schema.json, parse it, pick the validator and check the
\* schema against its meta-schema.  "ok", or the exception that ends the
\* command.
LoadSchema(doc) ==
    CASE doc = "missing" -> "FileNotFoundError"
      [] doc = "malformed" -> "JSONDecodeError"
      [] doc = "invalid" -> "SchemaError"
      [] OTHER -> "ok"

\* A call that names no note.
Call(name) == <<name, <<>>>>

\* The calls lines 68-75 make on a schema document, in order.
SchemaCalls(doc) ==
    <<Call("child.read_text")>>
      \o (IF doc = "missing" THEN <<>> ELSE <<Call("json.loads")>>)
      \o (IF doc \in {"missing", "malformed"}
          THEN <<>> ELSE <<Call("check_schema")>>)
      \o (IF LoadSchema(doc) = "ok" THEN <<Call("notes")>> ELSE <<>>)

\* A loop that validates the notes awaiting triage too.
TreeAfterNoTriage(t, sp, note) ==
    LET errors == SortedByRelevance(IterErrors(note))
    IN  IF errors = <<>> THEN t ELSE Append(t, <<sp, errors>>)

\* A loop that starts the tree again at every invalid note.
TreeAfterRestarting(t, sp, note) ==
    IF AwaitingTriage(note) THEN t
    ELSE LET errors == SortedByRelevance(IterErrors(note))
         IN  IF errors = <<>> THEN t ELSE <<<<sp, errors>>>>

\* Lines 76-85: one turn of validate_frontmatter's loop, on the tree.
TreeAfter(t, sp, note) ==
    IF AwaitingTriage(note) THEN t
    ELSE LET errors == SortedByRelevance(IterErrors(note))
         IN  IF errors = <<>> THEN t ELSE Append(t, <<sp, errors>>)

\* Lines 76-79: the notes validator.iter_errors is called on.
ValidatedAfter(c, sp, note) ==
    IF AwaitingTriage(note) THEN c ELSE Append(c, <<"iter_errors", sp>>)

\* A test that takes every tag under todo/ for a todo tag.
HasTodoTagByPrefix(note) == \E t \in Tags(note) : StartsWith(TODO, t)

\* Line 103
HasTodoTag(note) == TODO \in Tags(note) \/ TODO_NOW \in Tags(note)

\* A scan that takes only the lines that start with the marker.
TasksOfByPrefix(note) ==
    SelectSeq(Lines(note), LAMBDA line : StartsWith(HASH_TODO, line))

\* Line 106
TasksOf(note) == SelectSeq(Lines(note), LAMBDA line : Contains(HASH_TODO, line))

\* Lines 106-109: one turn of todo's loop, on the Tasks table.
TasksTableAfter(t, sp, note) ==
    IF TasksOf(note) # <<>> THEN Append(t, <<sp, TasksOf(note)>>) ELSE t

\* Line 112: sorted(note.subpath() for note in whole_note_todo)
RECURSIVE SortedSubpaths(_)
SortedSubpaths(S) ==
    IF S = {} THEN <<>>
    ELSE LET m == CHOOSE x \in S : \A y \in S : x = y \/ LexLess(x, y)
         IN  <<m>> \o SortedSubpaths(S \ {m})

\* Counter.update(iterable): each element counts one; a new key goes last.
RECURSIVE CounterUpdate(_, _)
CounterUpdate(c, elems) ==
    IF elems = <<>> THEN c
    ELSE LET e == Head(elems)
             at == {i \in 1..Len(c) : c[i][1] = e}
             c1 == IF at = {} THEN Append(c, <<e, 1>>)
                   ELSE [i \in 1..Len(c) |->
                           IF i \in at THEN <<e, c[i][2] + 1>> ELSE c[i]]
         IN  CounterUpdate(c1, Tail(elems))

\* Counter.most_common(): sorted by count, greatest first, stable: equal
\* counts keep the order in which their keys were first seen.
InsertByCount(s, item) ==
    LET k == Cardinality({i \in 1..Len(s) : s[i][2] >= item[2]})
    IN  SubSeq(s, 1, k) \o <<item>> \o SubSeq(s, k + 1, Len(s))

\* A table in the Counter's own order.
MostCommonUnsorted(c) == c

RECURSIVE MostCommon(_)
MostCommon(c) ==
    IF c = <<>> THEN <<>>
    ELSE InsertByCount(MostCommon(SubSeq(c, 1, Len(c) - 1)), c[Len(c)])

\* Lines 128-137 on the tag sets as the loop received them.
RECURSIVE CountAll(_)
CountAll(tagSeqs) ==
    IF tagSeqs = <<>> THEN <<>>
    ELSE CounterUpdate(CountAll(SubSeq(tagSeqs, 1, Len(tagSeqs) - 1)),
                       tagSeqs[Len(tagSeqs)])

\* The part of a subpath after its last slash.
RECURSIVE FileName(_)
FileName(sp) ==
    IF \E i \in 1..Len(sp) : sp[i] = "/" THEN FileName(Tail(sp)) ELSE sp

\* A listing keyed by file name: a name already printed is not printed again.
AnkiPrintedByName(out, sp, note) ==
    IF /\ LEARN_ANKI \in Tags(note)
       /\ \A i \in 1..Len(out) : FileName(out[i][2]) # FileName(sp)
    THEN Append(out, <<"line", sp>>) ELSE out

\* Lines 149-150: one turn of anki's loop, on the console.
AnkiPrinted(out, sp, note) ==
    IF LEARN_ANKI \in Tags(note) THEN Append(out, <<"line", sp>>) ELSE out

\* ------------------------------------------------------------------- state

VARIABLES
    vault,            \* the files under the vault's root
    pc,               \* "idle", "loop", "done" or "aborted"
    cmd,              \* the command running, "" when none
    yielded,          \* the subpaths vault.notes() has yielded, in order
    calls,            \* the calls made on the vault and the validator
    error,            \* the exception that ended the command, "" when none
    tree,             \* validate_frontmatter: the children of the tree
    whole_note_todo,  \* todo: the set of notes, a note being its subpath
    tasks_table,      \* todo: the rows of the Tasks table
    tags,             \* tags: the Counter, keys in insertion order
    fed,              \* tags: the tag sets as Counter.update iterated them
    stdout            \* what the command printed, in order

vars ==
    <<vault, pc, cmd, yielded, calls, error, tree, whole_note_todo,
      tasks_table, tags, fed, stdout>>

\* A process that has not run a command yet.
Fresh ==
    /\ pc = "idle"
    /\ cmd = ""
    /\ yielded = <<>>
    /\ calls = <<>>
    /\ error = ""
    /\ tree = <<>>
    /\ whole_note_todo = {}
    /\ tasks_table = <<>>
    /\ tags = <<>>
    /\ fed = <<>>
    /\ stdout = <<>>

Init == vault \in Vaults /\ Fresh

\* The notes vault.notes() has still to yield.
Remaining == DOMAIN vault.notes \ Range(yielded)

\* ---------------------------------------------------- validate_frontmatter

\* Lines 68-75: load and check the schema, then start on the notes.
ValidateLoadSchema ==
    /\ pc = "idle"
    /\ cmd' = "validate_frontmatter"
    /\ calls' = SchemaCalls(vault.schema)
    /\ IF LoadSchema(vault.schema) = "ok"
       THEN pc' = "loop" /\ error' = ""
       ELSE pc' = "aborted" /\ error' = LoadSchema(vault.schema)
    /\ UNCHANGED <<vault, yielded, tree, whole_note_todo, tasks_table, tags,
                   fed, stdout>>

\* Lines 75-85: the next note.
ValidateNote ==
    /\ pc = "loop" /\ cmd = "validate_frontmatter"
    /\ \E sp \in Remaining :
         /\ yielded' = Append(yielded, sp)
         /\ calls' = ValidatedAfter(calls, sp, NoteAt(vault, sp))
         /\ tree' = TreeAfter(tree, sp, NoteAt(vault, sp))
    /\ UNCHANGED <<vault, pc, cmd, error, whole_note_todo, tasks_table, tags,
                   fed, stdout>>

\* Lines 87-90
ValidateFinish ==
    /\ pc = "loop" /\ cmd = "validate_frontmatter"
    /\ Remaining = {}
    /\ stdout' = IF tree # <<>>
                 THEN Append(stdout, <<"tree", tree>>)
                 ELSE Append(stdout, <<"text", "All notes are valid.">>)
    /\ pc' = "done"
    /\ UNCHANGED <<vault, cmd, yielded, calls, error, tree, whole_note_todo,
                   tasks_table, tags, fed>>

\* --------------------------------------------------------------------- todo

\* Lines 99-102
TodoStart ==
    /\ pc = "idle"
    /\ cmd' = "todo"
    /\ pc' = "loop"
    /\ whole_note_todo' = {}
    /\ tasks_table' = <<>>
    /\ calls' = <<Call("notes")>>
    /\ UNCHANGED <<vault, yielded, error, tree, tags, fed, stdout>>

\* A todo that ticks off the tasks it lists, rewriting the note.
TodoNoteTicking ==
    /\ pc = "loop" /\ cmd = "todo"
    /\ \E sp \in Remaining :
         /\ yielded' = Append(yielded, sp)
         /\ whole_note_todo' =
              IF HasTodoTag(NoteAt(vault, sp))
              THEN whole_note_todo \cup {sp} ELSE whole_note_todo
         /\ tasks_table' = TasksTableAfter(tasks_table, sp, NoteAt(vault, sp))
         /\ vault' =
              [vault EXCEPT !.notes[sp].lines =
                 SelectSeq(@, LAMBDA line : ~Contains(HASH_TODO, line))]
    /\ UNCHANGED <<pc, cmd, calls, error, tree, tags, fed, stdout>>

\* Lines 102-109: the next note.
TodoNote ==
    /\ pc = "loop" /\ cmd = "todo"
    /\ \E sp \in Remaining :
         /\ yielded' = Append(yielded, sp)
         /\ whole_note_todo' =
              IF HasTodoTag(NoteAt(vault, sp))
              THEN whole_note_todo \cup {sp} ELSE whole_note_todo
         /\ tasks_table' = TasksTableAfter(tasks_table, sp, NoteAt(vault, sp))
    /\ UNCHANGED <<vault, pc, cmd, calls, error, tree, tags, fed, stdout>>

\* Lines 111-119
TodoFinish ==
    /\ pc = "loop" /\ cmd = "todo"
    /\ Remaining = {}
    /\ stdout' =
         LET withPanel ==
               Append(stdout, <<"panel", SortedSubpaths(whole_note_todo)>>)
         IN  IF Len(tasks_table) > 0
             THEN Append(withPanel, <<"table", tasks_table>>)
             ELSE withPanel
    /\ pc' = "done"
    /\ UNCHANGED <<vault, cmd, yielded, calls, error, tree, whole_note_todo,
                   tasks_table, tags, fed>>

\* --------------------------------------------------------------------- tags

\* Lines 128-129
TagsStart ==
    /\ pc = "idle"
    /\ cmd' = "tags"
    /\ pc' = "loop"
    /\ tags' = <<>>
    /\ fed' = <<>>
    /\ calls' = <<Call("notes")>>
    /\ UNCHANGED <<vault, yielded, error, tree, whole_note_todo, tasks_table,
                   stdout>>

\* Lines 129-130: the next note; its tag set is iterated in some order.
TagsNote ==
    /\ pc = "loop" /\ cmd = "tags"
    /\ \E sp \in Remaining :
         \E ts \in Enumerations(Tags(NoteAt(vault, sp))) :
           /\ yielded' = Append(yielded, sp)
           /\ tags' = CounterUpdate(tags, ts)
           /\ fed' = Append(fed, ts)
    /\ UNCHANGED <<vault, pc, cmd, calls, error, tree, whole_note_todo,
                   tasks_table, stdout>>

\* Lines 132-139
TagsFinish ==
    /\ pc = "loop" /\ cmd = "tags"
    /\ Remaining = {}
    /\ stdout' = Append(stdout, <<"table", MostCommon(tags)>>)
    /\ pc' = "done"
    /\ UNCHANGED <<vault, cmd, yielded, calls, error, tree, whole_note_todo,
                   tasks_table, tags, fed>>

\* --------------------------------------------------------------------- anki

\* Line 148
AnkiStart ==
    /\ pc = "idle"
    /\ cmd' = "anki"
    /\ pc' = "loop"
    /\ calls' = <<Call("notes")>>
    /\ UNCHANGED <<vault, yielded, error, tree, whole_note_todo, tasks_table,
                   tags, fed, stdout>>

\* Lines 148-150: the next note.
AnkiNote ==
    /\ pc = "loop" /\ cmd = "anki"
    /\ \E sp \in Remaining :
         /\ yielded' = Append(yielded, sp)
         /\ stdout' = AnkiPrinted(stdout, sp, NoteAt(vault, sp))
    /\ UNCHANGED <<vault, pc, cmd, calls, error, tree, whole_note_todo,
                   tasks_table, tags, fed>>

\* Line 148: the notes are exhausted.
AnkiFinish ==
    /\ pc = "loop" /\ cmd = "anki"
    /\ Remaining = {}
    /\ pc' = "done"
    /\ UNCHANGED <<vault, cmd, yielded, calls, error, tree, whole_note_todo,
                   tasks_table, tags, fed, stdout>>

\* ------------------------------------------------------------------ process

\* The process ends; the next invocation of ob starts afresh on the same
\* vault.
Exit ==
    /\ pc \in {"done", "aborted"}
    /\ pc' = "idle"
    /\ cmd' = ""
    /\ yielded' = <<>>
    /\ calls' = <<>>
    /\ error' = ""
    /\ tree' = <<>>
    /\ whole_note_todo' = {}
    /\ tasks_table' = <<>>
    /\ tags' = <<>>
    /\ fed' = <<>>
    /\ stdout' = <<>>
    /\ UNCHANGED vault

Next ==
    \/ ValidateLoadSchema
    \/ ValidateNote
    \/ ValidateFinish
    \/ TodoStart
    \/ TodoNote
    \/ TodoFinish
    \/ TagsStart
    \/ TagsNote
    \/ TagsFinish
    \/ AnkiStart
    \/ AnkiNote
    \/ AnkiFinish
    \/ Exit

Spec == Init /\ [][Next]_vars

\* ------------------------------------------------------------ the claims

Finished(c) == pc = "done" /\ cmd = c

AllSubpaths == DOMAIN vault.notes

\* The subpaths the tree has a child for.
Listed == {tree[k][1] : k \in 1..Len(tree)}

\* A note whose frontmatter has at least one schema validation error.
Invalid(sp) == IterErrors(NoteAt(vault, sp)) # <<>>

\* The line holds the marker #todo at some position.
HasMarker(line) ==
    \E k \in 1..(Len(line) - 4) : SubSeq(line, k, k + 4) = HASH_TODO

\* C1: when schema.json is missing or fails its meta-schema,
\* validate_frontmatter aborts with an error before vault.notes() is called
\* and before any iter_errors call, and prints neither the tree nor the
\* 'All notes are valid' message.
C1_SchemaCheckedFirst ==
    (cmd = "validate_frontmatter" /\ vault.schema \in {"missing", "invalid"})
      => /\ pc = "aborted"
         /\ error # ""
         /\ \A i \in 1..Len(calls) : calls[i][1] \notin {"notes", "iter_errors"}
         /\ yielded = <<>>
         /\ stdout = <<>>

\* An invalid schema has aborted the command on a vault that holds notes.
C1_Witness ==
    /\ cmd = "validate_frontmatter"
    /\ pc = "aborted"
    /\ vault.schema = "invalid"
    /\ error = "SchemaError"
    /\ \E sp \in AllSubpaths : Invalid(sp) /\ ~AwaitingTriage(NoteAt(vault, sp))

\* C2: of any two errors listed under the same note, the one with strictly
\* higher relevance is listed before the other.
C2_MostRelevantFirst ==
    cmd = "validate_frontmatter"
      => \A k \in 1..Len(tree) :
           \A i, j \in 1..Len(tree[k][2]) :
             Relevance(tree[k][2][i]) > Relevance(tree[k][2][j]) => i < j

C4_OrderIndependent ==
    Finished("tags")
      => \A o \in Enumerations(1..Len(fed)) :
           MostCommon(CountAll([i \in 1..Len(fed) |-> fed[o[i]]]))
             = stdout[1][2]

\* C5: the panel of the todo command lists a subpath if and only if the
\* note's tag set holds exactly 'todo' or exactly 'todo/now', each once, in
\* ascending order.
C5_TodoPanel ==
    Finished("todo")
      => /\ stdout[1][1] = "panel"
         /\ Range(stdout[1][2])
              = {sp \in AllSubpaths :
                   \/ TODO \in Tags(NoteAt(vault, sp))
                   \/ TODO_NOW \in Tags(NoteAt(vault, sp))}
         /\ \A i, j \in 1..Len(stdout[1][2]) :
              i < j => LexLess(stdout[1][2][i], stdout[1][2][j])

\* The panel lists a note while another note, whose only todo-like tag is
\* todo/later, is left out.
C5_Witness ==
    /\ Finished("todo")
    /\ Len(stdout[1][2]) = 1
    /\ \E sp \in AllSubpaths :
         /\ Tags(NoteAt(vault, sp)) = {TODO_LATER}
         /\ sp \notin Range(stdout[1][2])

\* C6: anki prints the subpath of a note if and only if its tag set holds
\* exactly 'learn/anki', one line per such note, in the order vault.notes()
\* yields them; a/x.md and b/x.md are both printed when both carry the tag.
C6_AnkiListing ==
    cmd = "anki"
      => LET sel == SelectSeq(yielded,
                      LAMBDA sp : LEARN_ANKI \in Tags(NoteAt(vault, sp)))
         IN  /\ stdout = [i \in 1..Len(sel) |-> <<"line", sel[i]>>]
             /\ pc = "done" => Range(yielded) = AllSubpaths

\* a/x.md and b/x.md both carry the tag and both are printed.
C6_Witness ==
    /\ Finished("anki")
    /\ Len(stdout) = 2
    /\ FileName(stdout[1][2]) = FileName(stdout[2][2])
    /\ stdout[1][2] # stdout[2][2]

\* C7: no step of any command changes the files of the vault.
C7_VaultUnchanged == [][vault' = vault]_vars

\* The todo command has gone through a vault with tasks and printed them.
C7_Witness ==
    /\ Finished("todo")
    /\ Len(stdout) = 2
    /\ Cardinality(AllSubpaths) = MaxNotes

\* C8: the table of the tags command has one row per tag that occurs in
\* some note, its count the number of notes whose tag set holds it, and the
\* rows are in order of non-increasing count.
C8_TagsTable ==
    Finished("tags")
      => LET rows == stdout[1][2]
         IN  /\ stdout[1][1] = "table"
             /\ {rows[i][1] : i \in 1..Len(rows)}
                  = UNION {Tags(NoteAt(vault, sp)) : sp \in AllSubpaths}
             /\ \A i, j \in 1..Len(rows) : i # j => rows[i][1] # rows[j][1]
             /\ \A i \in 1..Len(rows) :
                  rows[i][2]
                    = Cardinality({sp \in AllSubpaths :
                                     rows[i][1] \in Tags(NoteAt(vault, sp))})
             /\ \A i, j \in 1..Len(rows) : i < j => rows[i][2] >= rows[j][2]

\* A tag two notes share is counted twice and put before a tag the Counter
\* saw first.
C8_Witness ==
    /\ Finished("tags")
    /\ Len(tags) >= 2
    /\ tags[1][2] = 1
    /\ stdout[1][2][1][2] = 2
    /\ stdout[1][2][Len(tags)][2] = 1

C10_TasksTable ==
    Finished("todo")
      => LET sel == SelectSeq(yielded,
                      LAMBDA sp : \E l \in Range(Lines(NoteAt(vault, sp))) :
                                    HasMarker(l))
             rows == [i \in 1..Len(sel) |->
                        <<sel[i],
                          SelectSeq(Lines(NoteAt(vault, sel[i])), HasMarker)>>]
         IN  /\ Range(yielded) = AllSubpaths
             /\ stdout[1][1] = "panel"
             /\ IF Len(sel) > 0
                THEN /\ Len(stdout) = 2
                     /\ stdout[2][1] = "table"
                     /\ stdout[2][2] = rows
                ELSE Len(stdout) = 1

\* One note has a Tasks row and is not in the panel, another is in the
\* panel and has no Tasks row.
C10_Witness ==
    /\ Finished("todo")
    /\ Len(stdout) = 2
    /\ \E sp \in AllSubpaths :
         /\ sp \notin Range(stdout[1][2])
         /\ \E k \in 1..Len(stdout[2][2]) :
              /\ stdout[2][2][k][1] = sp
              /\ LineLater \in Range(stdout[2][2][k][2])
    /\ \E sp \in Range(stdout[1][2]) :
         \A k \in 1..Len(stdout[2][2]) : stdout[2][2][k][1] # sp

=============================================================================
